---- MODULE Spec2Model ----
(***************************************************************************)
(* BinarySearchTreeMap<int, std::string> of src/BinaryTree.cpp.            *)
(*                                                                         *)
(* The heap is a function from the addresses of the live Node objects to   *)
(* their four fields.  A std::unique_ptr<Node> is a slot holding an        *)
(* address or NULL; the pointer-to-slot `ptr` of put/remove/get is a       *)
(* record naming the slot (the root slot, or the left/right slot of a      *)
(* node).                                                                  *)
(***************************************************************************)
EXTENDS Integers, Sequences, FiniteSets, TLC

(* ------------------------------ bounds -------------------------------- *)
\* keys are 0..MaxKey
MaxKey == 2
\* values are the first NumVals names of ValNames
NumVals == 2

Keys == 0..MaxKey
ValNames == <<"zero", "one", "two", "three", "four", "five", "six", "seven">>
Vals == {ValNames[i] : i \in 1..NumVals}

\* the keys and values main puts, in its order (lines 142-149)
ScenarioKeys == <<4, 5, 3, 1, 6, 0, 7, 2>>
ScenarioValue(k) == ValNames[k + 1]

\* a caller with no second thread makes no more than MaxPuts calls of put,
\* and any number of the other calls
MaxPuts == 6

(* ------------------------------ state --------------------------------- *)
VARIABLES
    root,     \* std::unique_ptr<Node> root : an address or NULL
    heap,     \* the live Node objects, by address
    size_,    \* size_t size_
    call,     \* the last call made on the map: its op and its arguments
    result,   \* what that call produced: err, and ret, str, num or flag
    amap,     \* the abstract key-to-value map run side by side with the tree
    reader,   \* a toString running in a second thread: pc, node, stack
    step,     \* how many calls a counting driver has made: the statements of
              \* main, the calls of the writer that races with toString, the
              \* puts of a caller with no second thread
    brk       \* the free store: the addresses 1..brk have been handed out

vars == <<root, heap, size_, call, result, amap, reader, step, brk>>

NULL == 0

\* std::optional<V>
nullopt == <<>>
Some(v) == <<v>>

\* the what() of the std::invalid_argument thrown by remove
LeafOnlyMessage == "ERROR: Only leaf nodes can be removed."
NoError == ""

\* the object the methods work on
Self == [root |-> root, heap |-> heap, size_ |-> size_]

(* ------------------------------ Node ---------------------------------- *)
\* Node(K key, V value) : Node(key, value, nullptr, nullptr)
Node(key, value) == [key |-> key, value |-> value, left |-> NULL, right |-> NULL]

\* Node::setValue stores the value in the node at address p
setValue(h, p, value) == [h EXCEPT ![p].value = value]

\* the slots: &root, &node->getLeft(), &node->getRight()
RootSlot == [owner |-> NULL, side |-> "root"]
getLeft(p) == [owner |-> p, side |-> "left"]
getRight(p) == [owner |-> p, side |-> "right"]

\* *ptr
Deref(m, ptr) ==
    IF ptr.side = "root" THEN m.root
    ELSE IF ptr.side = "left" THEN m.heap[ptr.owner].left
    ELSE m.heap[ptr.owner].right

\* the slot ptr now holds address a (the heap is otherwise as h)
Store(m, h, ptr, a) ==
    IF ptr.side = "root" THEN [m EXCEPT !.root = a, !.heap = h]
    ELSE IF ptr.side = "left"
         THEN [m EXCEPT !.heap = [h EXCEPT ![ptr.owner].left = a]]
         ELSE [m EXCEPT !.heap = [h EXCEPT ![ptr.owner].right = a]]

\* the addresses reachable from the set `frontier` by child links
RECURSIVE Reach(_, _, _)
Reach(h, frontier, seen) ==
    LET new == (frontier \cap DOMAIN h) \ seen
    IN  IF new = {} THEN seen
        ELSE Reach(h, UNION {{h[a].left, h[a].right} \ {NULL} : a \in new},
                   seen \cup new)

\* the nodes owned, directly or not, by a slot holding address a
Subtree(h, a) == Reach(h, {a} \ {NULL}, {})

\* std::make_unique<Node>(key, value): the new Node lies at an address not
\* in use, and which one is up to the allocator and to what else the program
\* has allocated and freed: any address freed before (the one freed last or
\* another), or one never handed out.  make_unique(h, top) is the set of the
\* addresses it may return when the live nodes are those of h and the
\* addresses handed out so far are 1..top; the addresses never handed out
\* are named in the order they are taken
make_uniqueStale(h, top) == 1..(top + 1)
make_unique(h, top) == {a \in 1..top : a \notin DOMAIN h} \cup {top + 1}

\* the addresses handed out after a call that took the heap from h to h2,
\* where a is the address make_unique returned if the call made a node
Handed(h, h2, top, a) ==
    IF a \in DOMAIN h2 \ DOMAIN h /\ a > top THEN a ELSE top

\* the heap with a new Node(key, value) at address a
Alloc(h, a, key, value) ==
    [b \in DOMAIN h \cup {a} |-> IF b = a THEN Node(key, value) ELSE h[b]]

\* ~unique_ptr<Node>: the node at p is destroyed, and with it the nodes its
\* own left and right members own
Destroy(h, p) == [b \in DOMAIN h \ Subtree(h, p) |-> h[b]]

(* ------------------------------ put ----------------------------------- *)
\* lines 70-73: the slot the walk of put moves to from the node at p
putDescendSwapped(m, p, key) ==
    IF key > m.heap[p].key THEN getLeft(p) ELSE getRight(p)
putDescend(m, p, key) ==
    IF key > m.heap[p].key THEN getRight(p) ELSE getLeft(p)

\* lines 63-74: the while loop of put; it ends on the slot of the node
\* holding key (found) or on the empty slot the walk reached
RECURSIVE putLoop(_, _, _)
putLoop(m, ptr, key) ==
    IF Deref(m, ptr) # NULL
    THEN LET p == Deref(m, ptr)
         IN  IF m.heap[p].key = key
             THEN [found |-> TRUE, ptr |-> ptr]
             ELSE putLoop(m, putDescend(m, p, key), key)
    ELSE [found |-> FALSE, ptr |-> ptr]

\* lines 59-60 and 77-78: the insertion into an empty map; a is the address
\* make_unique returns
putRootNoCount(m, key, value, a) ==
    [m   |-> [root |-> a, heap |-> Alloc(m.heap, a, key, value),
              size_ |-> m.size_],
     ret |-> nullopt]
putRoot(m, key, value, a) ==
    [m   |-> [root |-> a, heap |-> Alloc(m.heap, a, key, value),
              size_ |-> m.size_ + 1],
     ret |-> nullopt]

\* lines 65-69: the update of the node in slot ptr
putUpdateReturnsNew(m, ptr, value) ==
    LET p == Deref(m, ptr)
    IN  [m   |-> [m EXCEPT !.heap = setValue(m.heap, p, value)],
         ret |-> Some(value)]
putUpdateNoWrite(m, ptr, value) ==
    LET p == Deref(m, ptr)
    IN  [m   |-> m,
         ret |-> Some(m.heap[p].value)]
putUpdate(m, ptr, value) ==
    LET p == Deref(m, ptr)
    IN  [m   |-> [m EXCEPT !.heap = setValue(m.heap, p, value)],
         ret |-> Some(m.heap[p].value)]

\* lines 75-78: the new leaf stored in the empty slot ptr; a is the address
\* make_unique returns
putInsertAtRoot(m, ptr, key, value, a) ==
    LET up   == key > m.heap[m.root].key
        node == [key |-> key, value |-> value,
                 left  |-> IF up THEN m.root ELSE NULL,
                 right |-> IF up THEN NULL ELSE m.root]
    IN  [m   |-> [root  |-> a,
                  heap  |-> [b \in DOMAIN m.heap \cup {a} |->
                                IF b = a THEN node ELSE m.heap[b]],
                  size_ |-> m.size_ + 1],
         ret |-> nullopt]
putInsert(m, ptr, key, value, a) ==
    LET m1 == Store(m, Alloc(m.heap, a, key, value), ptr, a)
    IN  [m   |-> [m1 EXCEPT !.size_ = m.size_ + 1],
         ret |-> nullopt]

\* std::optional<V> put(K const &key, V const &value), where a is the
\* address make_unique returns if the call comes to make a node
put(m, key, value, a) ==
    IF m.root = NULL
    THEN putRoot(m, key, value, a)
    ELSE LET w == putLoop(m, RootSlot, key)
         IN  IF w.found
             THEN putUpdate(m, w.ptr, value)
             ELSE putInsert(m, w.ptr, key, value, a)

(* ------------------------------ remove -------------------------------- *)
\* lines 93-96
removeDescendSwapped(m, p, key) ==
    IF key > m.heap[p].key THEN getLeft(p) ELSE getRight(p)
removeDescend(m, p, key) ==
    IF key > m.heap[p].key THEN getRight(p) ELSE getLeft(p)

\* line 86: the node at p has a child
removeHasChildRightOnly(m, p) == m.heap[p].right # NULL
removeHasChildNegated(m, p) ==
    ~(m.heap[p].right # NULL \/ m.heap[p].left # NULL)
removeHasChild(m, p) == m.heap[p].right # NULL \/ m.heap[p].left # NULL

\* lines 88-91: the leaf in slot ptr is destroyed and the slot cleared
removeLeafNoCount(m, ptr) ==
    LET p == Deref(m, ptr)
    IN  [m   |-> Store(m, Destroy(m.heap, p), ptr, NULL),
         ret |-> Some(m.heap[p].value),
         err |-> NoError]
removeLeafKeepsNode(m, ptr) ==
    LET p == Deref(m, ptr)
    IN  [m   |-> [m EXCEPT !.size_ = m.size_ - 1],
         ret |-> Some(m.heap[p].value),
         err |-> NoError]
removeLeaf(m, ptr) ==
    LET p  == Deref(m, ptr)
        m1 == Store(m, Destroy(m.heap, p), ptr, NULL)
    IN  [m   |-> [m1 EXCEPT !.size_ = m.size_ - 1],
         ret |-> Some(m.heap[p].value),
         err |-> NoError]

\* line 98: the walk fell off the tree
removeAbsentThrows(m) == [m |-> m, ret |-> nullopt, err |-> LeafOnlyMessage]
removeAbsent(m) == [m |-> m, ret |-> nullopt, err |-> NoError]

\* lines 83-98: the while loop of remove and the return after it
RECURSIVE removeLoop(_, _, _)
removeLoop(m, ptr, key) ==
    IF Deref(m, ptr) # NULL
    THEN LET p == Deref(m, ptr)
         IN  IF m.heap[p].key = key
             THEN IF removeHasChild(m, p)
                  THEN [m |-> m, ret |-> nullopt, err |-> LeafOnlyMessage]
                  ELSE removeLeaf(m, ptr)
             ELSE removeLoop(m, removeDescend(m, p, key), key)
    ELSE removeAbsent(m)

\* std::optional<V> remove(K const &key)
remove(m, key) == removeLoop(m, RootSlot, key)

(* ------------------------------ get ----------------------------------- *)
\* lines 106-109
getDescendSwapped(m, p, key) ==
    IF key > m.heap[p].key THEN getLeft(p) ELSE getRight(p)
getDescend(m, p, key) ==
    IF key > m.heap[p].key THEN getRight(p) ELSE getLeft(p)

\* lines 103-111
RECURSIVE getLoop(_, _, _)
getLoop(m, ptr, key) ==
    IF Deref(m, ptr) # NULL
    THEN LET p == Deref(m, ptr)
         IN  IF m.heap[p].key = key
             THEN Some(m.heap[p].value)
             ELSE getLoop(m, getDescend(m, p, key), key)
    ELSE nullopt

\* std::optional<V> get(K const &key)
get(m, key) == getLoop(m, RootSlot, key)

(* ------------------------------ toString ------------------------------ *)
\* lines 127-128: inOrder << "(" << key << ", " << value << ") "
Emit(inOrder, h, node) ==
    inOrder \o "(" \o ToString(h[node].key) \o ", " \o h[node].value \o ") "

\* lines 120-131: the explicit-stack loop
RECURSIVE toStringLoopPreOrder(_, _, _, _)
toStringLoopPreOrder(h, node, stack, inOrder) ==
    IF stack # <<>> \/ node # NULL
    THEN IF node # NULL
         THEN toStringLoopPreOrder(h, h[node].left, Append(stack, node),
                                   Emit(inOrder, h, node))
         ELSE LET back == stack[Len(stack)]
              IN  toStringLoopPreOrder(h, h[back].right,
                                       SubSeq(stack, 1, Len(stack) - 1),
                                       inOrder)
    ELSE inOrder
RECURSIVE toStringLoop(_, _, _, _)
toStringLoop(h, node, stack, inOrder) ==
    IF stack # <<>> \/ node # NULL
    THEN IF node # NULL
         THEN toStringLoop(h, h[node].left, Append(stack, node), inOrder)
         ELSE LET back == stack[Len(stack)]
              IN  toStringLoop(h, h[back].right,
                               SubSeq(stack, 1, Len(stack) - 1),
                               Emit(inOrder, h, back))
    ELSE inOrder

\* std::string toString()
toString(m) == toStringLoop(m.heap, m.root, <<>>, "[ ") \o "]"

(* ------------------------------ the loops, counted -------------------- *)
\* The loops again, with their iterations counted and cut off after `fuel`
\* of them, so that a loop that does not end shows as ended = FALSE.

\* lines 63-74: the slots the walk of put examines from ptr on, the one
\* it stops at included
RECURSIVE putLoopSlots(_, _, _, _)
putLoopSlots(m, ptr, key, fuel) ==
    IF fuel = 0 THEN [ended |-> FALSE, steps |-> 0]
    ELSE LET p == Deref(m, ptr)
         IN  IF p = NULL \/ m.heap[p].key = key
             THEN [ended |-> TRUE, steps |-> 1]
             ELSE LET w == putLoopSlots(m, putDescend(m, p, key), key, fuel - 1)
                  IN  [ended |-> w.ended, steps |-> w.steps + 1]

\* lines 83-97: the slots the walk of remove examines from ptr on, the one
\* it stops at included
RECURSIVE removeLoopSlots(_, _, _, _)
removeLoopSlots(m, ptr, key, fuel) ==
    IF fuel = 0 THEN [ended |-> FALSE, steps |-> 0]
    ELSE LET p == Deref(m, ptr)
         IN  IF p = NULL \/ m.heap[p].key = key
             THEN [ended |-> TRUE, steps |-> 1]
             ELSE LET w == removeLoopSlots(m, removeDescend(m, p, key), key, fuel - 1)
                  IN  [ended |-> w.ended, steps |-> w.steps + 1]

\* lines 103-110: the slots the walk of get examines from ptr on, the one
\* it stops at included
RECURSIVE getLoopSlots(_, _, _, _)
getLoopSlots(m, ptr, key, fuel) ==
    IF fuel = 0 THEN [ended |-> FALSE, steps |-> 0]
    ELSE LET p == Deref(m, ptr)
         IN  IF p = NULL \/ m.heap[p].key = key
             THEN [ended |-> TRUE, steps |-> 1]
             ELSE LET w == getLoopSlots(m, getDescend(m, p, key), key, fuel - 1)
                  IN  [ended |-> w.ended, steps |-> w.steps + 1]

\* lines 120-131: the loop of toString with the addresses it pushes and
\* pops, in order
RECURSIVE toStringRunNoPop(_, _, _, _, _, _)
toStringRunNoPop(h, node, stack, pushed, popped, fuel) ==
    IF stack # <<>> \/ node # NULL
    THEN IF fuel = 0
         THEN [ended |-> FALSE, stack |-> stack,
               pushed |-> pushed, popped |-> popped]
         ELSE IF node # NULL
         THEN toStringRunNoPop(h, h[node].left, Append(stack, node),
                               Append(pushed, node), popped, fuel - 1)
         ELSE LET back == stack[Len(stack)]
              IN  toStringRunNoPop(h, h[back].right, stack,
                                   pushed, Append(popped, back), fuel - 1)
    ELSE [ended |-> TRUE, stack |-> stack, pushed |-> pushed, popped |-> popped]
RECURSIVE toStringRun(_, _, _, _, _, _)
toStringRun(h, node, stack, pushed, popped, fuel) ==
    IF stack # <<>> \/ node # NULL
    THEN IF fuel = 0
         THEN [ended |-> FALSE, stack |-> stack,
               pushed |-> pushed, popped |-> popped]
         ELSE IF node # NULL
         THEN toStringRun(h, h[node].left, Append(stack, node),
                          Append(pushed, node), popped, fuel - 1)
         ELSE LET back == stack[Len(stack)]
              IN  toStringRun(h, h[back].right,
                              SubSeq(stack, 1, Len(stack) - 1),
                              pushed, Append(popped, back), fuel - 1)
    ELSE [ended |-> TRUE, stack |-> stack, pushed |-> pushed, popped |-> popped]

(* ------------------------------ size, isEmpty ------------------------- *)
size(m) == m.size_
isEmpty(m) == m.size_ = 0

(* ------------------------------ the calls ----------------------------- *)
\* the abstract map after put(key, value)
AbstractPut(f, key, value) ==
    [k \in DOMAIN f \cup {key} |-> IF k = key THEN value ELSE f[k]]
\* the abstract map after a remove(key) that returned a value
AbstractRemove(f, key) == [k \in DOMAIN f \ {key} |-> f[k]]

\* no toString is running in the second thread
ReaderIdle == [pc |-> "idle", node |-> NULL, stack |-> <<>>]

\* BinarySearchTreeMap() : size_(0), root(nullptr)
Init ==
    /\ root = NULL
    /\ heap = <<>>
    /\ size_ = 0
    /\ call = [op |-> "new"]
    /\ result = [err |-> NoError]
    /\ amap = <<>>
    /\ reader = ReaderIdle
    /\ step = 0
    /\ brk = 0

\* a call of put with no toString running beside it; the new node, if one
\* is made, lies at any address the allocator may return
Put(key, value) ==
    /\ step < MaxPuts
    /\ \E a \in make_unique(heap, brk) :
        LET r == put(Self, key, value, a)
        IN  /\ root' = r.m.root
            /\ heap' = r.m.heap
            /\ size_' = r.m.size_
            /\ call' = [op |-> "put", key |-> key, value |-> value]
            /\ result' = [ret |-> r.ret, err |-> NoError]
            /\ amap' = AbstractPut(amap, key, value)
            /\ brk' = Handed(heap, r.m.heap, brk, a)
    /\ step' = step + 1
    /\ UNCHANGED reader

Remove(key) ==
    LET r == remove(Self, key)
    IN  /\ root' = r.m.root
        /\ heap' = r.m.heap
        /\ size_' = r.m.size_
        /\ call' = [op |-> "remove", key |-> key]
        /\ result' = [ret |-> r.ret, err |-> r.err]
        /\ amap' = IF r.err = NoError /\ r.ret # nullopt
                   THEN AbstractRemove(amap, key)
                   ELSE amap
        /\ UNCHANGED <<reader, step, brk>>

GetInserting(key) ==
    /\ step < MaxPuts
    /\ \E a \in make_unique(heap, brk) :
        LET r == IF get(Self, key) = nullopt
                 THEN put(Self, key, ValNames[1], a)
                 ELSE [m |-> Self]
        IN  /\ root' = r.m.root
            /\ heap' = r.m.heap
            /\ size_' = r.m.size_
            /\ call' = [op |-> "get", key |-> key]
            /\ result' = [ret |-> get(Self, key), err |-> NoError]
            /\ brk' = Handed(heap, r.m.heap, brk, a)
    /\ step' = step + 1
    /\ UNCHANGED <<amap, reader>>
Get(key) ==
    /\ call' = [op |-> "get", key |-> key]
    /\ result' = [ret |-> get(Self, key), err |-> NoError]
    /\ UNCHANGED <<root, heap, size_, amap, reader, step, brk>>

ToStringCall ==
    /\ call' = [op |-> "toString"]
    /\ result' = [str |-> toString(Self), err |-> NoError]
    /\ UNCHANGED <<root, heap, size_, amap, reader, step, brk>>

Size ==
    /\ call' = [op |-> "size"]
    /\ result' = [num |-> size(Self), err |-> NoError]
    /\ UNCHANGED <<root, heap, size_, amap, reader, step, brk>>

IsEmpty ==
    /\ call' = [op |-> "isEmpty"]
    /\ result' = [flag |-> isEmpty(Self), err |-> NoError]
    /\ UNCHANGED <<root, heap, size_, amap, reader, step, brk>>

Next ==
    \/ \E key \in Keys, value \in Vals : Put(key, value)
    \/ \E key \in Keys : Remove(key)
    \/ \E key \in Keys : Get(key)
    \/ ToStringCall
    \/ Size
    \/ IsEmpty

Spec == Init /\ [][Next]_vars

(* ------------------- toString in a second thread --------------------- *)
\* The map has no lock: while one thread is inside toString, another may
\* call put or remove.  The reader below runs the loop of lines 120-131 one
\* iteration per step, and the calls of the writer fall between its steps.
\* The reader's state is what the loop keeps between iterations and reads
\* back: node and stack.  The text it builds is written only, and is left out.

\* the writer of the racing threads uses the keys 0..MaxConcKey
MaxConcKey == 1
ConcKeys == 0..MaxConcKey

\* the reader reads no value (its text is left out), so that one value is
\* enough for the writer
ConcVals == {ValNames[2]}

\* the writer makes no more than MaxWrites calls
MaxWrites == 16

\* the addresses the running toString still holds: node and the stack
ReaderRefs(rd) ==
    IF rd.pc = "loop"
    THEN ({rd.node} \cup {rd.stack[i] : i \in 1..Len(rd.stack)}) \ {NULL}
    ELSE {}

\* the node the next iteration dereferences: node when it is not null
\* (node->getLeft()), else the top of the stack (stack.back()->getKey())
ReaderTarget(rd) ==
    IF rd.node # NULL THEN rd.node
    ELSE IF rd.stack # <<>> THEN rd.stack[Len(rd.stack)]
    ELSE NULL

\* lines 120-131, one iteration, reading the target node as the record n
ReaderIterate(rd, n) ==
    IF rd.node # NULL
    THEN [rd EXCEPT !.stack = Append(rd.stack, rd.node), !.node = n.left]
    ELSE [rd EXCEPT !.stack = SubSeq(rd.stack, 1, Len(rd.stack) - 1),
                    !.node = n.right]

\* lines 115-119: the second thread enters toString
ReaderStart ==
    /\ reader.pc = "idle"
    /\ reader' = [pc |-> "loop", node |-> root, stack |-> <<>>]
    /\ UNCHANGED <<root, heap, size_, call, result, amap, step, brk>>

\* lines 120-131: one iteration on a node that is alive
ReaderStep ==
    /\ reader.pc = "loop"
    /\ ReaderTarget(reader) \in DOMAIN heap
    /\ reader' = ReaderIterate(reader, heap[ReaderTarget(reader)])
    /\ UNCHANGED <<root, heap, size_, call, result, amap, step, brk>>

\* lines 120-131: one iteration on a node that remove has destroyed.  The
\* read is undefined behaviour: the thread faults, or it goes on with
\* indeterminate pointers, which are followed no further here
ReaderUseAfterFree ==
    /\ reader.pc = "loop"
    /\ ReaderTarget(reader) # NULL
    /\ ReaderTarget(reader) \notin DOMAIN heap
    /\ \E outcome \in {"fault", "indeterminate"} :
          reader' = [reader EXCEPT !.pc = outcome]
    /\ UNCHANGED <<root, heap, size_, call, result, amap, step, brk>>

\* lines 132-133: the loop has ended, the string is closed and returned
ReaderFinish ==
    /\ reader.pc = "loop"
    /\ reader.node = NULL
    /\ reader.stack = <<>>
    /\ reader' = [reader EXCEPT !.pc = "done"]
    /\ UNCHANGED <<root, heap, size_, call, result, amap, step, brk>>

\* the writer's calls, before, during and after the reader's toString (a
\* reader that has met a destroyed node is followed no further, and neither
\* is the writer beside it): a put takes any address the allocator may
\* return, one the reader still holds or another
WriterPut(key, value) ==
    /\ reader.pc \in {"idle", "loop", "done"}
    /\ step < MaxWrites
    /\ \E a \in make_unique(heap, brk) :
       LET r == put(Self, key, value, a)
       IN  /\ root' = r.m.root
           /\ heap' = r.m.heap
           /\ size_' = r.m.size_
           /\ call' = [op |-> "put", key |-> key, value |-> value]
           /\ result' = [ret |-> r.ret, err |-> NoError]
           /\ amap' = AbstractPut(amap, key, value)
           /\ brk' = Handed(heap, r.m.heap, brk, a)
    /\ step' = step + 1
    /\ UNCHANGED reader

WriterRemove(key) ==
    /\ reader.pc \in {"idle", "loop", "done"}
    /\ step < MaxWrites
    /\ LET r == remove(Self, key)
       IN  /\ root' = r.m.root
           /\ heap' = r.m.heap
           /\ size_' = r.m.size_
           /\ call' = [op |-> "remove", key |-> key]
           /\ result' = [ret |-> r.ret, err |-> r.err]
           /\ amap' = IF r.err = NoError /\ r.ret # nullopt
                      THEN AbstractRemove(amap, key)
                      ELSE amap
    /\ step' = step + 1
    /\ UNCHANGED <<reader, brk>>

NextConc ==
    \/ \E key \in ConcKeys, value \in ConcVals : WriterPut(key, value)
    \/ \E key \in ConcKeys : WriterRemove(key)
    \/ ReaderStart
    \/ ReaderStep
    \/ ReaderUseAfterFree
    \/ ReaderFinish

SpecConc == Init /\ [][NextConc]_vars

(* ------------------------------ main ---------------------------------- *)
\* The calls main makes on its map, in order: step counts the ones made.
\* Statements 1-8 are the puts of lines 142-149, then remove(2), remove(8),
\* remove(4), get(5), get(8) and toString() of lines 151-167.
LastMainStep == Len(ScenarioKeys) + 6

\* lines 142-149
MainPut ==
    /\ step < Len(ScenarioKeys)
    /\ \E a \in make_unique(heap, brk) :
       LET key   == ScenarioKeys[step + 1]
           value == ScenarioValue(key)
           r     == put(Self, key, value, a)
       IN  /\ root' = r.m.root
           /\ heap' = r.m.heap
           /\ size_' = r.m.size_
           /\ call' = [op |-> "put", key |-> key, value |-> value]
           /\ result' = [ret |-> r.ret, err |-> NoError]
           /\ amap' = AbstractPut(amap, key, value)
           /\ brk' = Handed(heap, r.m.heap, brk, a)
    /\ step' = step + 1
    /\ UNCHANGED reader

\* lines 151, 153 and 156: remove(2), remove(8), remove(4)
MainRemove ==
    /\ step \in (Len(ScenarioKeys))..(Len(ScenarioKeys) + 2)
    /\ LET key == <<2, 8, 4>>[step - Len(ScenarioKeys) + 1]
           r   == remove(Self, key)
       IN  /\ root' = r.m.root
           /\ heap' = r.m.heap
           /\ size_' = r.m.size_
           /\ call' = [op |-> "remove", key |-> key]
           /\ result' = [ret |-> r.ret, err |-> r.err]
           /\ amap' = IF r.err = NoError /\ r.ret # nullopt
                      THEN AbstractRemove(amap, key)
                      ELSE amap
    /\ step' = step + 1
    /\ UNCHANGED <<reader, brk>>

\* lines 165-166: get(5), get(8)
MainGet ==
    /\ step \in (Len(ScenarioKeys) + 3)..(Len(ScenarioKeys) + 4)
    /\ LET key == <<5, 8>>[step - Len(ScenarioKeys) - 2]
       IN  /\ call' = [op |-> "get", key |-> key]
           /\ result' = [ret |-> get(Self, key), err |-> NoError]
    /\ step' = step + 1
    /\ UNCHANGED <<root, heap, size_, amap, reader, brk>>

\* line 167
MainToString ==
    /\ step = Len(ScenarioKeys) + 5
    /\ call' = [op |-> "toString"]
    /\ result' = [str |-> toString(Self), err |-> NoError]
    /\ step' = step + 1
    /\ UNCHANGED <<root, heap, size_, amap, reader, brk>>

\* main, with the size() of its asserts (lines 141, 150, 152, 154, 164) and
\* any other read of the map between its statements
NextMain ==
    \/ MainPut
    \/ MainRemove
    \/ MainGet
    \/ MainToString
    \/ Size
    \/ IsEmpty
    \/ \E key \in 0..Len(ScenarioKeys) : Get(key)
    \/ ToStringCall

SpecMain == Init /\ [][NextMain]_vars

(* ------------------------------ sorted input -------------------------- *)
\* a caller that puts new keys only, each greater than every key put before
PutAscending(key, value) ==
    /\ \A n \in DOMAIN heap : key > heap[n].key
    /\ Put(key, value)

NextAscending ==
    \/ \E key \in Keys, value \in Vals : PutAscending(key, value)
    \/ \E key \in Keys : Get(key)
    \/ ToStringCall
    \/ Size
    \/ IsEmpty

SpecAscending == Init /\ [][NextAscending]_vars

(* ------------------------------ properties ---------------------------- *)
\* the nodes of the tree, and the keys they hold
Nodes == Subtree(heap, root)
KeysUnder(h, a) == {h[n].key : n \in Subtree(h, a)}
KeysPresent == KeysUnder(heap, root)

\* the map after the step
SelfNext == [root |-> root', heap |-> heap', size_ |-> size_']

\* the node holding key k before the step
NodeOf(k) == CHOOSE n \in Nodes : heap[n].key = k

\* C1: in every state reachable by put and remove, every key in the left
\* subtree of a node is strictly less than the node's key, every key in its
\* right subtree is strictly greater, and no key is held by two nodes.
C1_BSTOrdering ==
    /\ \A n \in Nodes :
          /\ \A x \in KeysUnder(heap, heap[n].left) : x < heap[n].key
          /\ \A x \in KeysUnder(heap, heap[n].right) : x > heap[n].key
    /\ \A a, b \in Nodes : a # b => heap[a].key # heap[b].key

\* a tree of a parent and a child left behind by the removal of a leaf
C1_Witness ==
    /\ call.op = "remove"
    /\ result.ret # nullopt
    /\ Cardinality(Nodes) = 2

\* C2 (state part): size() is the number of nodes reachable from root, which
\* is the number of distinct keys present.
SizeIsNodeCount ==
    /\ size(Self) = Cardinality(Nodes)
    /\ Cardinality(Nodes) = Cardinality(KeysPresent)

\* C2 (step part): a put of a new key adds 1, a put of an existing key adds
\* 0, a removal that returns a value subtracts 1, a removal that raises or
\* finds nothing changes nothing.
SizeDelta ==
    /\ call'.op = "put" =>
          size_' = size_ + (IF call'.key \in KeysPresent THEN 0 ELSE 1)
    /\ call'.op = "remove" =>
          size_' = size_ - (IF result'.err = NoError /\ result'.ret # nullopt
                            THEN 1 ELSE 0)

\* C2: after any sequence of put and remove calls size() equals the number
\* of nodes reachable from root and the number of distinct keys present, and
\* each call changes it by the stated amount.
C2_SizeConsistent == []SizeIsNodeCount /\ [][SizeDelta]_vars

\* a removal has raised on a map of two keys, and the count is still 2
C2_Witness ==
    /\ call.op = "remove"
    /\ result.err # NoError
    /\ size_ = 2
    /\ Cardinality(KeysPresent) = 2

\* what the abstract map holds for key k, as an optional
AbstractGet(f, k) == IF k \in DOMAIN f THEN Some(f[k]) ELSE nullopt

\* C3: the tree agrees with the abstract map run side by side with it: for
\* every key, get returns the value of the last put not followed by a
\* successful remove, and empty for a key never put or removed since.
C3_RefinesMap ==
    /\ \A k \in Keys : get(Self, k) = AbstractGet(amap, k)
    /\ call.op = "get" => result.ret = AbstractGet(amap, call.key)

\* get has answered empty for a key that was put and then removed, while
\* another key is still present
C3_Witness ==
    /\ call.op = "get"
    /\ result.ret = nullopt
    /\ call.key \notin DOMAIN amap
    /\ call.key \in Keys
    /\ DOMAIN amap # {}
    /\ \E k \in DOMAIN amap : k > call.key

\* the node holding key k has a child / is a leaf, before the step
HasChildAt(k) ==
    /\ k \in KeysPresent
    /\ heap[NodeOf(k)].left # NULL \/ heap[NodeOf(k)].right # NULL
IsLeafAt(k) ==
    /\ k \in KeysPresent
    /\ heap[NodeOf(k)].left = NULL
    /\ heap[NodeOf(k)].right = NULL

\* the step is a call of remove(k)
IsRemove(k) == call'.op = "remove" /\ call'.key = k

\* C4 (step): a remove of a key whose node has a child raises with the
\* fixed message and returns nothing, and root, every node and the count
\* are as before the call.
NonLeafRemoveRaises ==
    \A k \in Keys :
        IsRemove(k) /\ HasChildAt(k) =>
            /\ result'.err = LeafOnlyMessage
            /\ result'.err = "ERROR: Only leaf nodes can be removed."
            /\ result'.ret = nullopt
            /\ UNCHANGED <<root, heap, size_>>

\* C4: remove(k) on a key whose node has at least one child ends in the
\* error "ERROR: Only leaf nodes can be removed." and leaves the tree
\* structure, every key and value, and the count unchanged.
C4_NonLeafRemoveRaises == [][NonLeafRemoveRaises]_vars

\* remove has raised on a node whose only child is its left one
C4_Witness ==
    /\ call.op = "remove"
    /\ result.err = LeafOnlyMessage
    /\ call.key \in KeysPresent
    /\ heap[NodeOf(call.key)].left # NULL
    /\ heap[NodeOf(call.key)].right = NULL

\* the heap without the node at n, every slot that held n now empty
Detached(h, n) ==
    [b \in DOMAIN h \ {n} |->
        [h[b] EXCEPT !.left = IF @ = n THEN NULL ELSE @,
                     !.right = IF @ = n THEN NULL ELSE @]]

\* the slots holding address n: the root slot, or child slots of nodes
SlotsHolding(n) ==
    {s \in {RootSlot} \cup {getLeft(p) : p \in DOMAIN heap}
                      \cup {getRight(p) : p \in DOMAIN heap} :
        Deref(Self, s) = n}

\* C5 (step): a remove of a key whose node is a leaf returns the node's
\* value, empties the one slot that held the node, takes 1 off the count,
\* and leaves every other node, with its key, value and children, in place.
LeafRemoveDetaches ==
    \A k \in Keys :
        IsRemove(k) /\ IsLeafAt(k) =>
            LET n == NodeOf(k)
            IN  /\ result'.ret = Some(heap[n].value)
                /\ result'.err = NoError
                /\ size_' = size_ - 1
                /\ Cardinality(SlotsHolding(n)) = 1
                /\ heap' = Detached(heap, n)
                /\ root' = IF root = n THEN NULL ELSE root
                /\ get(SelfNext, k) = nullopt
                /\ \A j \in Keys \ {k} : get(SelfNext, j) = get(Self, j)
                /\ KeysUnder(heap', root') = KeysPresent \ {k}

\* C5: remove(k) on a leaf returns its value, clears exactly the slot that
\* held it and decrements count by 1; afterwards k is absent and every other
\* key is present with its value and position unchanged.
C5_LeafRemoveDetaches == [][LeafRemoveDetaches]_vars

\* a leaf below the root has been removed and the others are still there
C5_Witness ==
    /\ call.op = "remove"
    /\ result.ret # nullopt
    /\ result.err = NoError
    /\ call.key \notin KeysPresent
    /\ Cardinality(KeysPresent) = 2
    /\ size_ = 2

\* C6 (step): a remove of a key that is not present returns empty, raises
\* nothing, and leaves root, every node and the count as before the call.
AbsentRemoveIsNoOp ==
    \A k \in Keys :
        IsRemove(k) /\ k \notin KeysPresent =>
            /\ result'.ret = nullopt
            /\ result'.err = NoError
            /\ UNCHANGED <<root, heap, size_>>

\* C6: remove(k) on an absent key returns the empty result without raising
\* and leaves the tree structure, all keys and values, and count unchanged.
C6_AbsentRemoveIsNoOp == [][AbsentRemoveIsNoOp]_vars

\* remove has found nothing in a map that holds other keys
C6_Witness ==
    /\ call.op = "remove"
    /\ result.ret = nullopt
    /\ result.err = NoError
    /\ call.key \notin KeysPresent
    /\ Cardinality(KeysPresent) = 2

\* the nodes holding key k after the step
NodesOfNext(k) == {n \in Subtree(heap', root') : heap'[n].key = k}

\* C7 (step, any existing key): a put on a key that is present returns the
\* value the node held, stores the new value in that node, and changes
\* neither the count nor any link of the tree.
PutExistingOverwrites ==
    call'.op = "put" /\ call'.key \in KeysPresent =>
        LET n == NodeOf(call'.key)
        IN  /\ result'.ret = Some(heap[n].value)
            /\ result'.err = NoError
            /\ heap' = [heap EXCEPT ![n].value = call'.value]
            /\ root' = root
            /\ size_' = size_

\* C7 (step, two puts in a row): put(k, v1) directly followed by put(k, v2)
\* returns v1 and leaves one node for k, holding v2.
PutTwiceKeepsLast ==
    call.op = "put" /\ call'.op = "put" /\ call'.key = call.key =>
        /\ result'.ret = Some(call.value)
        /\ Cardinality(NodesOfNext(call.key)) = 1
        /\ \A n \in NodesOfNext(call.key) : heap'[n].value = call'.value

\* C7: put(k, v1) followed by put(k, v2) leaves exactly one entry for k,
\* holding v2, and the second call returns v1; a put on an existing key
\* returns the previous value, overwrites in place, and changes neither
\* count nor the tree structure.
C7_PutOverwrites == [][PutExistingOverwrites /\ PutTwiceKeepsLast]_vars

\* a put has replaced a different value in a node that has a child
C7_Witness ==
    /\ call.op = "put"
    /\ result.ret # nullopt
    /\ result.ret # Some(call.value)
    /\ HasChildAt(call.key)
    /\ get(Self, call.key) = Some(call.value)

\* the empty slot the search for key k ends in: from the root slot, right
\* of a node with a smaller key, left of a node with a greater key
RECURSIVE SearchEnd(_, _, _)
SearchEnd(m, s, k) ==
    LET p == Deref(m, s)
    IN  IF p = NULL THEN s
        ELSE IF m.heap[p].key < k THEN SearchEnd(m, [owner |-> p, side |-> "right"], k)
        ELSE SearchEnd(m, [owner |-> p, side |-> "left"], k)

\* the heap h with the slot s holding a
WithSlot(h, s, a) ==
    IF s.side = "root" THEN h
    ELSE [b \in DOMAIN h |->
            IF b # s.owner THEN h[b]
            ELSE IF s.side = "left" THEN [h[b] EXCEPT !.left = a]
            ELSE [h[b] EXCEPT !.right = a]]

\* C8 (step): a put on a key that is not present returns empty, raises the
\* count by 1, and changes the tree in one way only: a new node holding
\* (k, v) with no children sits in the slot where the search for k ended.
PutAbsentInsertsLeaf ==
    call'.op = "put" /\ call'.key \notin KeysPresent =>
        LET k == call'.key
            s == SearchEnd(Self, RootSlot, k)
        IN  /\ result'.ret = nullopt
            /\ result'.err = NoError
            /\ size_' = size_ + 1
            /\ Deref(Self, s) = NULL
            /\ \E a \in make_unique(heap, brk) :
                  /\ DOMAIN heap' = DOMAIN heap \cup {a}
                  /\ heap'[a] = [key |-> k, value |-> call'.value,
                                 left |-> NULL, right |-> NULL]
                  /\ \A b \in DOMAIN heap : heap'[b] = WithSlot(heap, s, a)[b]
                  /\ root' = IF s.side = "root" THEN a ELSE root
                  /\ Deref(SelfNext, s) = a

\* C8: put(k, v) on an absent key, the empty map included, returns the
\* empty result, creates one new leaf holding (k, v) in the empty slot where
\* the search walk for k ended, and increments count by exactly 1.
C8_PutAbsentInsertsLeaf == [][PutAbsentInsertsLeaf]_vars

\* a put has hung a new leaf two levels below the root
C8_Witness ==
    /\ call.op = "put"
    /\ result.ret = nullopt
    /\ IsLeafAt(call.key)
    /\ size_ = 3
    /\ \E n \in Nodes \ {root} :
          NodeOf(call.key) \in {heap[n].left, heap[n].right}

\* C8 on the empty map: the first put makes the new node the root
C8_EmptyWitness ==
    /\ call.op = "put"
    /\ result.ret = nullopt
    /\ size_ = 1
    /\ root # NULL
    /\ heap[root].key = call.key

\* the rendering of the pairs with keys k..MaxKey, in ascending key order,
\* each key that is present once
RECURSIVE RenderFrom(_)
RenderFrom(k) ==
    IF k > MaxKey THEN ""
    ELSE (IF k \in KeysPresent
          THEN "(" \o ToString(k) \o ", " \o heap[NodeOf(k)].value \o ") "
          ELSE "")
         \o RenderFrom(k + 1)

\* C9: in every reachable state toString() lists every (key, value) pair of
\* the map exactly once, in strictly ascending key order, between "[ " and
\* "]"; on the empty map it yields "[ ]".
C9_ToStringInOrder ==
    /\ toString(Self) = "[ " \o RenderFrom(0) \o "]"
    /\ root = NULL => toString(Self) = "[ ]"
    /\ call.op = "toString" => result.str = "[ " \o RenderFrom(0) \o "]"

\* toString has rendered a root with a left and a right child
C9_Witness ==
    /\ call.op = "toString"
    /\ root # NULL
    /\ heap[root].left # NULL
    /\ heap[root].right # NULL
    /\ result.str = "[ (0, one) (1, zero) (2, one) ]"

\* toString has rendered the empty map
C9_EmptyWitness ==
    /\ call.op = "toString"
    /\ root = NULL
    /\ result.str = "[ ]"

\* every slot of the map: the root slot and the two slots of every node
Slots ==
    {RootSlot} \cup {getLeft(p) : p \in DOMAIN heap}
               \cup {getRight(p) : p \in DOMAIN heap}

\* the addresses the child slots of node a hold
ChildrenOf(a) == {heap[a].left, heap[a].right} \ {NULL}

\* C10: in every reachable state every node is referenced by exactly one
\* slot, the root slot or one left/right slot of one parent, and following
\* child links from a node never returns to that node.
C10_OwnershipIsTree ==
    /\ \A a \in DOMAIN heap :
          Cardinality({s \in Slots : Deref(Self, s) = a}) = 1
    /\ \A a \in DOMAIN heap : a \notin Reach(heap, ChildrenOf(a), {})

\* three nodes, one in the root slot, one in a left and one in a right slot,
\* the one put last at an address below that of a node put before it
C10_Witness ==
    /\ Cardinality(DOMAIN heap) = 3
    /\ \E a, b \in DOMAIN heap : heap[a].left # NULL /\ heap[b].right # NULL
    /\ call.op = "put"
    /\ result.ret = nullopt
    /\ \E b \in DOMAIN heap : NodeOf(call.key) < b

\* C11: get, size, isEmpty and toString are read-only: a call of any of
\* them leaves root, every node (its key, value and children) and the count
\* as they were.
C11_ReadsChangeNothing ==
    [][call'.op \in {"get", "size", "isEmpty", "toString"} =>
          UNCHANGED <<root, heap, size_>>]_vars

\* get has answered empty for an absent key on a map that holds two keys
C11_Witness ==
    /\ call.op = "get"
    /\ result.ret = nullopt
    /\ call.key \notin KeysPresent
    /\ size_ = 2
    /\ Cardinality(Nodes) = 2

\* the running reader holds a pointer, in node or on its stack, to a node
\* that has been destroyed
ReaderDangling == \E n \in ReaderRefs(reader) : n \notin DOMAIN heap

\* C12 (step): nothing keeps a leaf alive for a reader: when remove is
\* called on a leaf that a running toString holds in node or on its stack,
\* the node is destroyed and the reader still holds its address.
RemoveUnderReader ==
    \A k \in ConcKeys :
        (/\ IsRemove(k)
         /\ IsLeafAt(k)
         /\ NodeOf(k) \in ReaderRefs(reader)) =>
            /\ NodeOf(k) \notin DOMAIN heap'
            /\ NodeOf(k) \in ReaderRefs(reader')
            /\ \E n \in ReaderRefs(reader') : n \notin DOMAIN heap'

\* C12: the map is not safe for concurrent access: a remove interleaved with
\* the steps of a toString in another thread destroys a node the traversal
\* still refers to, which leaves the reader with dangling traversal state.
C12_RemoveLeavesReaderDangling == [][RemoveUnderReader]_vars

\* the reader is inside its loop with a destroyed node on its stack
C12_Witness ==
    /\ reader.pc = "loop"
    /\ \E i \in 1..Len(reader.stack) : reader.stack[i] \notin DOMAIN heap
    /\ call.op = "remove"
    /\ result.ret # nullopt

\* a put has made its node at another address than the one remove freed:
\* the node on top of the reader's stack is still a destroyed one
C12_StaleAfterPutWitness ==
    /\ reader.pc = "loop"
    /\ reader.node = NULL
    /\ Len(reader.stack) = 2
    /\ ReaderTarget(reader) \notin DOMAIN heap
    /\ call.op = "put"
    /\ result.ret = nullopt
    /\ size_ = 2

\* a put has made its node at the address remove freed: the reader's stack
\* holds the address of a node made after the traversal passed that place
C12_ReusedUnderReaderWitness ==
    /\ reader.pc = "loop"
    /\ reader.node = NULL
    /\ Len(reader.stack) = 2
    /\ ReaderTarget(reader) \in DOMAIN heap
    /\ ReaderTarget(reader) = NodeOf(call.key)
    /\ call.op = "put"
    /\ result.ret = nullopt
    /\ size_ = 2

\* two puts have made their nodes at addresses never used before: the tree
\* is whole again, and both entries of the reader's stack are destroyed nodes
C12_AllStaleAfterPutsWitness ==
    /\ reader.pc = "loop"
    /\ Len(reader.stack) = 2
    /\ \A i \in 1..Len(reader.stack) : reader.stack[i] \notin DOMAIN heap
    /\ call.op = "put"
    /\ size_ = 2
    /\ Cardinality(DOMAIN heap \cup ReaderRefs(reader)) = 4

\* the reader's stack is deeper than the tree: it holds the address of a
\* node twice, pushed before the node was removed and after it was made again
C12_StackDeeperThanTreeWitness ==
    /\ reader.pc = "loop"
    /\ Len(reader.stack) = 3
    /\ reader.stack[1] = reader.stack[3]
    /\ Cardinality(DOMAIN heap) = 2

\* the reader holds three destroyed nodes, and the tree is whole again at
\* two addresses the reader has never seen
C12_ThreeStaleWitness ==
    /\ reader.pc = "loop"
    /\ Cardinality(ReaderRefs(reader) \ DOMAIN heap) = 3
    /\ ReaderRefs(reader) \cap DOMAIN heap = {}
    /\ call.op = "put"
    /\ size_ = 2

\* the reader's stack holds five addresses over a tree of two nodes
C12_StackOfFiveWitness ==
    /\ reader.pc = "loop"
    /\ Len(reader.stack) = 5
    /\ Cardinality(DOMAIN heap) = 2

\* the reader has gone through a destroyed node: undefined behaviour
C12_UseAfterFreeWitness == reader.pc \in {"fault", "indeterminate"}

\* what put(k, v) does in the current state, wherever the allocator places
\* a new node: it returns empty when k is
\* absent and the value held for k when k is present, and get(k) on the map
\* it leaves returns v
PutCompletes ==
    \A k \in Keys, v \in Vals, a \in make_unique(heap, brk) :
        LET r == put(Self, k, v, a)
        IN  /\ r.ret = (IF k \in KeysPresent
                        THEN Some(heap[NodeOf(k)].value) ELSE nullopt)
            /\ get(r.m, k) = Some(v)

\* the last call, when it was a put, raised nothing, and get of its key
\* returns its value
LastPutSucceeded ==
    call.op = "put" =>
        /\ result.err = NoError
        /\ result.ret = nullopt \/ \E v \in Vals : result.ret = Some(v)
        /\ get(Self, call.key) = Some(call.value)

\* the last call raised only if it was a remove of a node with a child
OnlyNonLeafRemoveRaises ==
    result.err # NoError =>
        /\ call.op = "remove"
        /\ HasChildAt(call.key)
        /\ result.err = LeafOnlyMessage

\* C13: put never fails: in every reachable state, for every key and value,
\* it ends as a fresh insertion (empty result) or an update (previous
\* value), get(key) returns the given value right after, and the only error
\* of the interface is remove on a non-leaf node.
C13_PutNeverFails ==
    PutCompletes /\ LastPutSucceeded /\ OnlyNonLeafRemoveRaises

\* a put has updated the root of a three-node tree with a different value
C13_Witness ==
    /\ call.op = "put"
    /\ result.err = NoError
    /\ result.ret # nullopt
    /\ result.ret # Some(call.value)
    /\ size_ = 3
    /\ heap[root].key = call.key

\* the statements of main made so far are exactly n
AfterMain(n) == step = n

\* C14: the reference scenario, step by step: after the puts of 4, 5, 3, 1,
\* 6, 0, 7, 2 size() is 8; remove(2) returns "two" and size() is 7;
\* remove(8) returns empty, remove(4) raises, and size() stays 7; get(5)
\* returns "five", get(8) returns empty; the final toString() lists the
\* keys 0, 1, 3, 4, 5, 6, 7 in that order.
C14_ReferenceScenario ==
    /\ AfterMain(8) => size(Self) = 8
    /\ AfterMain(8) /\ call.op = "size" => result.num = 8
    /\ AfterMain(9) /\ call.op = "remove" =>
          call.key = 2 /\ result.ret = Some("two") /\ result.err = NoError
    /\ AfterMain(10) /\ call.op = "remove" =>
          call.key = 8 /\ result.ret = nullopt /\ result.err = NoError
    /\ AfterMain(11) /\ call.op = "remove" =>
          call.key = 4 /\ result.err = LeafOnlyMessage
    /\ step \in 9..LastMainStep => size(Self) = 7
    /\ step \in 9..LastMainStep /\ call.op = "size" => result.num = 7
    /\ AfterMain(12) /\ call.op = "get" /\ call.key = 5 =>
          result.ret = Some("five")
    /\ AfterMain(13) /\ call.op = "get" /\ call.key = 8 =>
          result.ret = nullopt
    /\ AfterMain(14) /\ call.op = "toString" =>
          result.str = "[ (0, zero) (1, one) (3, three) (4, four) "
                       \o "(5, five) (6, six) (7, seven) ]"

\* main has run to its end and printed the seven pairs
C14_Witness ==
    /\ AfterMain(LastMainStep)
    /\ call.op = "toString"
    /\ result.str = "[ (0, zero) (1, one) (3, three) (4, four) "
                    \o "(5, five) (6, six) (7, seven) ]"
    /\ size_ = 7

\* the tree below address a as a value without addresses
Nil == [nil |-> TRUE]
RECURSIVE Shape(_, _)
Shape(h, a) ==
    IF a = NULL THEN Nil
    ELSE [key |-> h[a].key, value |-> h[a].value,
          left |-> Shape(h, h[a].left), right |-> Shape(h, h[a].right)]

\* the insertion of (k, v) into such a tree with no rebalancing: the new
\* leaf replaces the empty place the comparisons lead to
RECURSIVE ShapeInsert(_, _, _)
ShapeInsert(t, k, v) ==
    IF t = Nil THEN [key |-> k, value |-> v, left |-> Nil, right |-> Nil]
    ELSE IF k = t.key THEN [t EXCEPT !.value = v]
    ELSE IF k > t.key THEN [t EXCEPT !.right = ShapeInsert(t.right, k, v)]
    ELSE [t EXCEPT !.left = ShapeInsert(t.left, k, v)]

\* the slots whose content the step changes
SlotsChanged == {s \in Slots : Deref(Self, s) # Deref(SelfNext, s)}

\* the node whose slot holds b, or NULL when b is in the root slot
ParentIn(m, b) ==
    IF m.root = b THEN NULL
    ELSE CHOOSE p \in DOMAIN m.heap : b \in {m.heap[p].left, m.heap[p].right}

\* C15 (step): a put of a new key keeps every existing node at its parent,
\* with its key and value; exactly one slot changes, it was empty and now
\* holds the new leaf; and the tree after is the tree before with the pair
\* inserted, whatever the addresses (so equal call sequences give equal trees).
PutKeepsShape ==
    call'.op = "put" /\ call'.key \notin KeysPresent =>
        /\ \A b \in DOMAIN heap :
              /\ b \in DOMAIN heap'
              /\ heap'[b].key = heap[b].key
              /\ heap'[b].value = heap[b].value
              /\ ParentIn(SelfNext, b) = ParentIn(Self, b)
              /\ heap[b].left # NULL => heap'[b].left = heap[b].left
              /\ heap[b].right # NULL => heap'[b].right = heap[b].right
        /\ Cardinality(SlotsChanged) = 1
        /\ \A s \in SlotsChanged :
              /\ Deref(Self, s) = NULL
              /\ heap'[Deref(SelfNext, s)] = Node(call'.key, call'.value)
        /\ Shape(heap', root') =
              ShapeInsert(Shape(heap, root), call'.key, call'.value)

\* C15: put performs no rebalancing: a put of a new key leaves the
\* parent/child relation, key and value of every existing node unchanged,
\* one previously empty slot now holding the new leaf, so that the shape of
\* the tree is a function of the sequence of operations.
C15_PutKeepsShape == [][PutKeepsShape]_vars

\* the third key has been put below a child of the root: a chain that a
\* rebalancing tree would have rotated
C15_Witness ==
    /\ call.op = "put"
    /\ result.ret = nullopt
    /\ size_ = 3
    /\ heap[root].left = NULL \/ heap[root].right = NULL
    /\ IsLeafAt(call.key)
    /\ ParentIn(Self, NodeOf(call.key)) # root

\* the number of nodes on the longest path from address a down to a leaf
RECURSIVE Height(_, _)
Height(h, a) ==
    IF a = NULL THEN 0
    ELSE LET l == Height(h, h[a].left)
             r == Height(h, h[a].right)
         IN  1 + (IF l > r THEN l ELSE r)

\* each address of the set S occurs exactly once in the sequence q
EachOnce(q, S) ==
    /\ Len(q) = Cardinality(S)
    /\ {q[i] : i \in 1..Len(q)} = S

\* C16: every call of put, get, remove and toString terminates in every
\* reachable state: the walks of put, get and remove examine at most
\* height+1 slots before they stop at a match or an empty slot, and the
\* loop of toString ends with an empty stack after pushing and popping
\* each node exactly once.
C16_CallsTerminate ==
    LET height == Height(heap, root)
        run    == toStringRun(heap, root, <<>>, <<>>, <<>>,
                              2 * Cardinality(DOMAIN heap) + 1)
    IN  /\ \A k \in Keys :
              /\ LET w == putLoopSlots(Self, RootSlot, k, height + 2)
                 IN  w.ended /\ w.steps <= height + 1
              /\ LET w == getLoopSlots(Self, RootSlot, k, height + 2)
                 IN  w.ended /\ w.steps <= height + 1
              /\ LET w == removeLoopSlots(Self, RootSlot, k, height + 2)
                 IN  w.ended /\ w.steps <= height + 1
        /\ run.ended
        /\ run.stack = <<>>
        /\ EachOnce(run.pushed, Nodes)
        /\ EachOnce(run.popped, Nodes)

\* toString has run on a chain three nodes deep, and a walk has gone down
\* to its deepest node
C16_Witness ==
    /\ call.op = "toString"
    /\ Height(heap, root) = 3
    /\ \E k \in Keys :
          getLoopSlots(Self, RootSlot, k, 5).steps = 3

\* the greatest key present
MaxKeyPresent == CHOOSE k \in KeysPresent : \A j \in KeysPresent : j <= k

\* C17: after N distinct keys put in strictly ascending order into an empty
\* map, every node has an empty left child, the nodes form one right-going
\* chain of depth N, and remove succeeds for the largest key only.
C17_SortedInputDegenerates ==
    /\ Cardinality(Nodes) = size_
    /\ \A n \in Nodes : heap[n].left = NULL
    /\ Height(heap, root) = size_
    /\ \A n \in Nodes :
          heap[n].key # MaxKeyPresent =>
              /\ heap[n].right # NULL
              /\ heap[heap[n].right].key > heap[n].key
    /\ \A k \in KeysPresent :
          LET r == remove(Self, k)
          IN  IF k = MaxKeyPresent
              THEN r.err = NoError /\ r.ret # nullopt
              ELSE r.err = LeafOnlyMessage

\* three keys have been put in ascending order: a chain of depth 3
C17_Witness ==
    /\ call.op = "put"
    /\ call.key = MaxKey
    /\ size_ = 3
    /\ heap[root].key = 0
    /\ heap[root].right # NULL
    /\ heap[heap[root].right].right # NULL

\* put(k, v) on an absent key and then remove(k), from the current state,
\* wherever the allocator places the new node
PutThenRemoveRestores ==
    \A k \in Keys \ KeysPresent, v \in Vals, a \in make_unique(heap, brk) :
        LET p == put(Self, k, v, a)
            r == remove(p.m, k)
        IN  /\ p.ret = nullopt
            /\ r.err = NoError
            /\ r.ret = Some(v)
            /\ r.m = Self

\* a remove called right after the put that inserted its key
RemoveAfterFreshPut ==
    (/\ call.op = "put"
     /\ result.ret = nullopt
     /\ call'.op = "remove"
     /\ call'.key = call.key) =>
        /\ result'.err = NoError
        /\ result'.ret = Some(call.value)
        /\ size_' = size_ - 1
        /\ call.key \notin KeysUnder(heap', root')

\* C18: in every reachable state, for every absent key k, put(k, v)
\* immediately followed by remove(k) never raises, returns v, and restores
\* exactly the state before the put: tree structure, keys, values and count.
C18_PutRemoveRoundTrip ==
    []PutThenRemoveRestores /\ [][RemoveAfterFreshPut]_vars

\* a key has been removed again and the root is left with its one child
C18_Witness ==
    /\ call.op = "remove"
    /\ result.ret # nullopt
    /\ result.err = NoError
    /\ size_ = 2
    /\ root # NULL
    /\ heap[root].left # NULL
    /\ call.key > heap[root].key

\* the keys below the node holding k, k itself left out
KeysBelow(m, k) ==
    LET n == CHOOSE a \in Subtree(m.heap, m.root) : m.heap[a].key = k
    IN  KeysUnder(m.heap, n) \ {k}

\* some sequence of at most `fuel` removes, none of which raises, empties m
RECURSIVE CanEmpty(_, _)
CanEmpty(m, fuel) ==
    IF m.root = NULL THEN size(m) = 0
    ELSE /\ fuel > 0
         /\ \E k \in KeysUnder(m.heap, m.root) :
               LET r == remove(m, k)
               IN  /\ r.err = NoError
                   /\ r.ret # nullopt
                   /\ CanEmpty(r.m, fuel - 1)

\* some sequence of removes of keys below k, none of which raises, after
\* which remove(k) does not raise either
RECURSIVE CanFree(_, _, _)
CanFree(m, k, fuel) ==
    IF KeysBelow(m, k) = {}
    THEN remove(m, k).err = NoError /\ remove(m, k).ret # nullopt
    ELSE /\ fuel > 0
         /\ \E j \in KeysBelow(m, k) :
               LET r == remove(m, j)
               IN  /\ r.err = NoError
                   /\ r.ret # nullopt
                   /\ CanFree(r.m, k, fuel - 1)

\* C19: the leaf-only policy never leaves the map stuck: in every
\* non-empty reachable state some present key can be removed without error,
\* a key with descendants can be removed once the keys of its subtree have
\* been, and some sequence of non-raising removes reaches the empty map
\* with size() = 0.
C19_NeverStuck ==
    /\ root # NULL =>
          \E k \in KeysPresent :
              remove(Self, k).err = NoError /\ remove(Self, k).ret # nullopt
    /\ \A k \in KeysPresent : CanFree(Self, k, size_)
    /\ CanEmpty(Self, size_)

\* the child of the root has been removed, which leaves the root as a
\* leaf that can be removed
C19_Witness ==
    /\ call.op = "remove"
    /\ result.ret # nullopt
    /\ size_ = 1
    /\ root # NULL
    /\ heap[root].key # call.key
    /\ remove(Self, heap[root].key).err = NoError

====
